---- MODULE Spec2Model ----
(***************************************************************************)
(* Model of app.py, the Streamlit "Bulbshare Link Generator & Data         *)
(* Matcher".  Every user interaction (uploading a file, changing a select  *)
(* box, pressing the button) re-runs main() from the top; an action of     *)
(* this module is one such run.  The widget state (the two uploaded files  *)
(* and the five select boxes) survives between runs, everything else is    *)
(* recomputed by the run and describes the page it rendered.               *)
(*                                                                         *)
(* pandas behaviour is modelled as of pandas 1.x / 2.x: read_csv turns an  *)
(* empty field into NaN, astype(str) turns NaN into the text "nan", and a  *)
(* left merge emits one row per matching pair.                             *)
(***************************************************************************)
EXTENDS Integers, Sequences, FiniteSets, TLC

(* ------------------------------ bounds -------------------------------- *)

\* Largest number of data rows in an uploaded CSV 1.
MaxRows1 == 2

\* Largest number of data rows in an uploaded CSV 2.
MaxRows2 == 2

(* ----------------------------- constants ------------------------------ *)

\* Column count of CSV 1 in the expected format (example_csv1).
ExpectedCols1 == 4

\* Column count of CSV 2 in the expected format (example_csv2).
ExpectedCols2 == 8

(* --------------------------- cells and text --------------------------- *)

\* A text is a sequence of one-character strings.  A cell of a DataFrame is
\* NaN, a text or a number.
NaN == [k |-> "nan", s |-> <<>>, n |-> 0]

Str(s) == [k |-> "str", s |-> s, n |-> 0]

Num(n) == [k |-> "num", s |-> <<>>, n |-> n]

Digit == <<"0", "1", "2", "3", "4", "5", "6", "7", "8", "9">>

RECURSIVE NatStr(_)
\* str() of a non-negative int.
NatStr(n) == IF n < 10 THEN <<Digit[n + 1]>> ELSE NatStr(n \div 10) \o <<Digit[(n % 10) + 1]>>

\* The text pandas prints for a missing value.
NanText == <<"n", "a", "n">>

RECURSIVE LStrip(_)
\* str.lstrip(): drop leading whitespace.
LStrip(s) == IF s # <<>> /\ Head(s) = " " THEN LStrip(Tail(s)) ELSE s

RECURSIVE RStrip(_)
\* str.rstrip(): drop trailing whitespace.
RStrip(s) == IF s # <<>> /\ s[Len(s)] = " " THEN RStrip(SubSeq(s, 1, Len(s) - 1)) ELSE s

\* str.strip()
StrStrip(s) == RStrip(LStrip(s))

\* pd.notna(x)
NotNa(x) == x.k # "nan"

(* ----------------------------- DataFrames ----------------------------- *)

\* A DataFrame is [ncols, rows]; a row maps the column positions 0..ncols-1
\* to cells.  Column names are the positions; the names of CSV 1 and CSV 2
\* are disjoint and none of them is 'Brief_Link' (as in the expected format
\* the app shows), so a column of CSV 2 is never confused with one of CSV 1.
Column(df, c) == [i \in 1..Len(df.rows) |-> df.rows[i][c]]

\* A column read_csv parsed as numbers: no text in it, and some number.
IsNumeric(col) ==
    /\ \A i \in 1..Len(col) : col[i].k # "str"
    /\ \E i \in 1..Len(col) : col[i].k = "num"

\* A numeric column holding NaN is float64, otherwise int64.
IsFloat(col) == IsNumeric(col) /\ \E i \in 1..Len(col) : col[i].k = "nan"

\* One element of Series.astype(str): NaN becomes the text "nan", a float
\* prints with its fraction, text stays.
AsTypeStr(col, i) ==
    CASE col[i].k = "str" -> col[i].s
      [] col[i].k = "nan" -> NanText
      [] OTHER -> IF IsFloat(col) THEN NatStr(col[i].n) \o <<".", "0">> ELSE NatStr(col[i].n)

(* ------------------------- the uploaded files ------------------------- *)

\* No file in the uploader (st.file_uploader returned None).
NoFile == [up |-> FALSE, ncols |-> 0, rows |-> <<>>]

\* An uploaded file with no header line: pd.read_csv raises EmptyDataError.
EmptyFile == [up |-> TRUE, ncols |-> 0, rows |-> <<>>]

\* Sequences over S of length 0..n.
SeqUpTo(S, n) == UNION {[1..k -> S] : k \in 0..n}

\* The rows of CSV 1 the uploads are built from, as (brief name, brief id).
\* read_csv never yields an empty text: an empty field is NaN, a field of
\* blanks stays a text of blanks.
PrimaryRows ==
    {[name |-> Str(<<" ", "a", " ">>), id |-> Str(<<" ", "x">>)],
     [name |-> Str(<<" ", "a", " ">>), id |-> Str(<<" ">>)],
     [name |-> NaN, id |-> Str(<<"x">>)],
     [name |-> NaN, id |-> NaN]}

\* The rows of CSV 2, as (brief requirement, issued amount).
SecondaryRows ==
    {[req |-> Str(<<"a">>), amount |-> Num(1)],
     [req |-> Str(<<"a">>), amount |-> NaN],
     [req |-> NaN, amount |-> Num(2)]}

Filler == Str(<<"D">>)

ClientOf(i) == Str(<<"c">> \o NatStr(i))

\* CSV 1 in the expected format: client name in column A, brief name in
\* column C, brief id in the last column, 'Data' elsewhere.
PrimaryFile(n, data) ==
    [up |-> TRUE, ncols |-> n,
     rows |-> [i \in 1..Len(data) |->
                [c \in 0..(n - 1) |->
                    IF c = n - 1 THEN data[i].id
                    ELSE IF c = 2 THEN data[i].name
                    ELSE IF c = 0 THEN ClientOf(i)
                    ELSE Filler]]]

\* CSV 2 in the expected format: brief requirement in column D, issued
\* amount in column H, 'Data' elsewhere.
SecondaryFile(n, data) ==
    [up |-> TRUE, ncols |-> n,
     rows |-> [i \in 1..Len(data) |->
                [c \in 0..(n - 1) |->
                    IF c = 7 THEN data[i].amount
                    ELSE IF c = 3 THEN data[i].req
                    ELSE Filler]]]

SampleRows1 == <<[name |-> Str(<<" ", "a", " ">>), id |-> Str(<<" ", "x">>)]>>

SampleRows2 == <<[req |-> Str(<<"a">>), amount |-> Num(1)]>>

\* The files a user uploads as CSV 1: the empty file, a one-row file of
\* every narrower width, and every file of full width with up to MaxRows1
\* rows.
Files1 ==
    {EmptyFile}
    \cup {PrimaryFile(n, SampleRows1) : n \in 1..(ExpectedCols1 - 1)}
    \cup {PrimaryFile(ExpectedCols1, d) : d \in SeqUpTo(PrimaryRows, MaxRows1)}

Files2 ==
    {EmptyFile}
    \cup {SecondaryFile(n, SampleRows2) : n \in 1..(ExpectedCols2 - 1)}
    \cup {SecondaryFile(ExpectedCols2, d) : d \in SeqUpTo(SecondaryRows, MaxRows2)}

(* ------------------------- column select boxes ------------------------ *)

\* index= of the "Client Name Column" select box, n = len(df1.columns).
DefaultClient(n) == IF n > 0 THEN 0 ELSE 0

\* Variant: the third column without looking at the column count.
DefaultBriefNameUnguarded(n) == 2

\* index= of the "Brief Name Column" select box.
DefaultBriefName(n) == IF n > 2 THEN 2 ELSE 0

\* index= of the "Brief ID Column" select box.
DefaultBriefId(n) == n - 1

\* index= of the "Brief Requirements Column" select box, n = len(df2.columns).
DefaultBriefReq(n) == IF n > 3 THEN 3 ELSE 0

\* index= of the "Issued Amount Column" select box.
DefaultIssuedAmount(n) == IF n > 7 THEN 7 ELSE 0

(* --------------------------- the transform ---------------------------- *)

\* Variant: astype(str) without .str.strip().
NormalizeNoStrip(df, c) ==
    [df EXCEPT !.rows =
        [i \in 1..Len(df.rows) |->
            [df.rows[i] EXCEPT ![c] = Str(AsTypeStr(Column(df, c), i))]]]

\* df[c] = df[c].astype(str).str.strip()
Normalize(df, c) ==
    [df EXCEPT !.rows =
        [i \in 1..Len(df.rows) |->
            [df.rows[i] EXCEPT ![c] = Str(StrStrip(AsTypeStr(Column(df, c), i)))]]]

base_url ==
    <<"h", "t", "t", "p", "s", ":", "/", "/", "a", "p", "p", ".", "b", "u", "l",
       "b", "s", "h", "a", "r", "e", ".", "c", "o", "m", "/", "2", "/", "b", "r",
       "i", "e", "f", "s", "/", "c", "r", "e", "a", "t", "e", "_", "b", "r", "i",
       "e", "f", ".", "h", "t", "m", "l", "?", "b", "r", "i", "e", "f", "=">>

\* The lambda applied to each text x of df1[brief_id_col].astype(str); x is
\* a str, so pd.notna(x) is evaluated on a text.
LinkOf(x) == IF NotNa(Str(x)) /\ StrStrip(x) # <<>> THEN base_url \o StrStrip(x) ELSE <<>>

\* df1['Brief_Link']
BriefLinks(df, c) == [i \in 1..Len(df.rows) |-> LinkOf(AsTypeStr(Column(df, c), i))]

\* pd.merge raises ValueError ("The column label ... is not unique") when
\* the key column occurs twice in the frame it is looked up in.
MergeRaises(s) ==
    \/ s.brief_name_col \in {s.client_col, s.brief_id_col}
    \/ s.brief_req_col = s.issued_amount_col

\* Variant: every row of df2 counts as a match, whatever its key.
RightMatchesAnyKey(df, c, key) == [j \in 1..Len(df.rows) |-> j]

\* Positions of the rows of df2 whose key equals key, in df2's order.
RightMatches(df, c, key) ==
    SelectSeq([j \in 1..Len(df.rows) |-> j], LAMBDA j : df.rows[j][c] = key)

\* One row of merged_df: row i of df1 beside row j of df2, or beside NaN when
\* j = 0.  p and q record where the row came from.
JoinedRow(dfa, links, dfb, s, i, j) ==
    [p |-> i, q |-> j,
     client |-> dfa.rows[i][s.client_col],
     brief_name |-> dfa.rows[i][s.brief_name_col],
     brief_id |-> dfa.rows[i][s.brief_id_col],
     Brief_Link |-> links[i],
     brief_req |-> IF j = 0 THEN NaN ELSE dfb.rows[j][s.brief_req_col],
     issued_amount |-> IF j = 0 THEN NaN ELSE dfb.rows[j][s.issued_amount_col]]

\* Variant: only the first matching row of df2 is joined.
LeftRowsFirstMatch(dfa, links, dfb, s, i) ==
    LET m == SelectSeq([j \in 1..Len(dfb.rows) |-> j],
                       LAMBDA j : dfb.rows[j][s.brief_req_col] = dfa.rows[i][s.brief_name_col])
    IN  <<[p |-> i, q |-> IF Len(m) = 0 THEN 0 ELSE m[1],
           client |-> dfa.rows[i][s.client_col],
           brief_name |-> dfa.rows[i][s.brief_name_col],
           brief_id |-> dfa.rows[i][s.brief_id_col],
           Brief_Link |-> links[i],
           brief_req |-> IF Len(m) = 0 THEN NaN ELSE dfb.rows[m[1]][s.brief_req_col],
           issued_amount |-> IF Len(m) = 0 THEN NaN ELSE dfb.rows[m[1]][s.issued_amount_col]]>>

\* The rows a left merge emits for row i of df1: one per matching row of
\* df2, or a single row with the right-hand columns missing.
LeftRows(dfa, links, dfb, s, i) ==
    LET m == RightMatches(dfb, s.brief_req_col, dfa.rows[i][s.brief_name_col])
    IN  IF Len(m) = 0
        THEN <<JoinedRow(dfa, links, dfb, s, i, 0)>>
        ELSE [k \in 1..Len(m) |-> JoinedRow(dfa, links, dfb, s, i, m[k])]

RECURSIVE MergeFrom(_, _, _, _, _)
\* The joined rows for rows i.. of df1, in df1's order.
MergeFrom(dfa, links, dfb, s, i) ==
    IF i > Len(dfa.rows) THEN <<>>
    ELSE LeftRows(dfa, links, dfb, s, i) \o MergeFrom(dfa, links, dfb, s, i + 1)

\* Variant: the joined rows come out last Primary record first.
MergeBackwards(dfa, links, dfb, s) ==
    LET fwd == MergeFrom(dfa, links, dfb, s, 1)
    IN  [k \in 1..Len(fwd) |-> fwd[Len(fwd) + 1 - k]]

\* pd.merge(df1[[...]], df2[[...]], left_on=, right_on=, how='left')
Merge(dfa, links, dfb, s) == MergeFrom(dfa, links, dfb, s, 1)

\* merged_df[client_col] is a two-column DataFrame when the client column
\* was also picked as the id column; pd.DataFrame({...}) then raises.
ProjectRaises(s) == s.client_col = s.brief_id_col

\* result_df = pd.DataFrame({'Client_Name': ..., ...})
Project(merged) ==
    [k \in 1..Len(merged) |->
        [p |-> merged[k].p, q |-> merged[k].q,
         Client_Name |-> merged[k].client,
         Brief_Name |-> merged[k].brief_name,
         Brief_Link |-> merged[k].Brief_Link,
         Issued_Amount |-> merged[k].issued_amount]]

\* Variant: the filter on Brief_Link is left out.
KeepEmptyLinks(res) == res

\* result_df[result_df['Brief_Link'] != '']
DropEmptyLinks(res) == SelectSeq(res, LAMBDA r : r.Brief_Link # <<>>)

\* Series.isin
IsIn(v, col) == \E j \in 1..Len(col) : col[j] = v

\* Variant: the membership test is made on the keys as uploaded in the other
\* file's first column instead of the mapped one.
UnmatchedFirstColumn(dfa, ca, dfb, cb) ==
    SelectSeq([i \in 1..Len(dfa.rows) |-> i],
              LAMBDA i : \A j \in 1..Len(dfb.rows) : dfb.rows[j][0] # dfa.rows[i][ca])

\* dfa[~dfa[ca].isin(dfb[cb])], as the index labels it keeps.
Unmatched(dfa, ca, dfb, cb) ==
    SelectSeq([i \in 1..Len(dfa.rows) |-> i],
              LAMBDA i : ~IsIn(dfa.rows[i][ca], Column(dfb, cb)))

\* What to_csv writes for a cell: nothing for NaN, the text, or the number
\* (with its fraction when the column is float64).  No text of the model
\* needs quoting.
CsvField(cell, float) ==
    CASE cell.k = "nan" -> <<>>
      [] cell.k = "str" -> cell.s
      [] OTHER -> IF float THEN NatStr(cell.n) \o <<".", "0">> ELSE NatStr(cell.n)

\* The issued-amount column of merged_df is float64 when it is numeric in
\* df2 and holds NaN there or was given NaN by an unmatched row.
AmountIsFloat(dfb, s, merged) ==
    /\ IsNumeric(Column(dfb, s.issued_amount_col))
    /\ \/ IsFloat(Column(dfb, s.issued_amount_col))
       \/ \E k \in 1..Len(merged) : merged[k].q = 0

\* result_df.to_csv(csv_buffer, index=False): the data lines under the
\* header Client_Name,Brief_Name,Brief_Link,Issued_Amount.
ToCsv(res, raw, s, float) ==
    [k \in 1..Len(res) |->
        [Client_Name |-> CsvField(res[k].Client_Name, IsFloat(Column(raw, s.client_col))),
         Brief_Name |-> CsvField(res[k].Brief_Name, FALSE),
         Brief_Link |-> res[k].Brief_Link,
         Issued_Amount |-> CsvField(res[k].Issued_Amount, float)]]

(* --------------------------- one run of main -------------------------- *)

\* Exceptions the run's environment can raise inside the try block besides
\* the ones the data decides: none, or result_df.to_csv failing (line 115).
Faults == {"none", "to_csv"}

NoFrame == [ncols |-> 0, rows |-> <<>>]

\* pd.read_csv of an uploaded file that has a header line.
ReadCsv(f) == [ncols |-> f.ncols, rows |-> f.rows]

\* What a run leaves behind when it stops before the button's block.
Blank ==
    [page |-> {}, df1 |-> NoFrame, df2 |-> NoFrame, brief_link |-> <<>>,
     merged_df |-> <<>>, result_df |-> <<>>, csv_data |-> <<>>,
     unmatched_from_csv1 |-> <<>>, unmatched_from_csv2 |-> <<>>]

\* The block under st.button(...), lines 67-135, on the frames just read.
\* st.* calls add to the page in the order the code makes them; an exception
\* leaves what was rendered and adds the error message of lines 138-139.
Generate(raw1, raw2, s, fault) ==
    LET shown == {"preview", "mapping"}
        n1 == Normalize(raw1, s.brief_name_col)
        n2 == Normalize(raw2, s.brief_req_col)
        links == BriefLinks(n1, s.brief_id_col)
        cleaned == [Blank EXCEPT !.df1 = n1, !.df2 = n2, !.brief_link = links]
        merged == Merge(n1, links, n2, s)
        result == DropEmptyLinks(Project(merged))
        un1 == Unmatched(n1, s.brief_name_col, n2, s.brief_req_col)
        un2 == Unmatched(n2, s.brief_req_col, n1, s.brief_name_col)
    IN  IF MergeRaises(s)
        THEN [cleaned EXCEPT !.page = shown \cup {"error"}]
        ELSE IF ProjectRaises(s)
        THEN [cleaned EXCEPT !.page = shown \cup {"error"}, !.merged_df = merged]
        ELSE IF fault = "to_csv"
        THEN [cleaned EXCEPT !.page = shown \cup {"results", "error"},
                             !.merged_df = merged, !.result_df = result]
        ELSE [cleaned EXCEPT
                !.page = shown \cup {"results", "download"}
                         \cup (IF Len(un1) > 0 \/ Len(un2) > 0 THEN {"unmatched"} ELSE {}),
                !.merged_df = merged, !.result_df = result,
                !.csv_data = ToCsv(result, raw1, s, AmountIsFloat(n2, s, merged)),
                !.unmatched_from_csv1 = un1, !.unmatched_from_csv2 = un2]

\* main(): the whole script, given the widget state and whether this run was
\* started by pressing the button.
Main(c1, c2, s, clicked, fault) ==
    IF ~(c1.up /\ c2.up) THEN [Blank EXCEPT !.page = {"info"}]
    ELSE IF c1.ncols = 0 \/ c2.ncols = 0 THEN [Blank EXCEPT !.page = {"error"}]
    ELSE IF ~clicked
    THEN [Blank EXCEPT !.page = {"preview", "mapping"}, !.df1 = ReadCsv(c1), !.df2 = ReadCsv(c2)]
    ELSE Generate(ReadCsv(c1), ReadCsv(c2), s, fault)

(* ------------------------------- state -------------------------------- *)

VARIABLES
    csv1, csv2,             \* the two file uploaders
    sel,                    \* the five select boxes, as column positions
    changed,                \* a select box was changed by hand
    page,                   \* what the last run rendered
    df1, df2, brief_link,   \* the frames of the last run
    merged_df, result_df, csv_data,
    unmatched_from_csv1, unmatched_from_csv2

vars ==
    <<csv1, csv2, sel, changed, page, df1, df2, brief_link, merged_df, result_df,
      csv_data, unmatched_from_csv1, unmatched_from_csv2>>

\* The select boxes exist only in a run that read both files.
Rendered(c1, c2) == c1.up /\ c2.up /\ c1.ncols > 0 /\ c2.ncols > 0

\* The select boxes for CSV 1 at their index= defaults.
Defaults1(c1, c2) ==
    IF Rendered(c1, c2)
    THEN [client_col |-> DefaultClient(c1.ncols),
          brief_name_col |-> DefaultBriefName(c1.ncols),
          brief_id_col |-> DefaultBriefId(c1.ncols)]
    ELSE [client_col |-> 0, brief_name_col |-> 0, brief_id_col |-> 0]

\* The select boxes for CSV 2 at their index= defaults.
Defaults2(c1, c2) ==
    IF Rendered(c1, c2)
    THEN [brief_req_col |-> DefaultBriefReq(c2.ncols),
          issued_amount_col |-> DefaultIssuedAmount(c2.ncols)]
    ELSE [brief_req_col |-> 0, issued_amount_col |-> 0]

Selection(a, b) ==
    [client_col |-> a.client_col, brief_name_col |-> a.brief_name_col,
     brief_id_col |-> a.brief_id_col, brief_req_col |-> b.brief_req_col,
     issued_amount_col |-> b.issued_amount_col]

\* The run's results become the state of the page.
Show(r) ==
    /\ page' = r.page
    /\ df1' = r.df1
    /\ df2' = r.df2
    /\ brief_link' = r.brief_link
    /\ merged_df' = r.merged_df
    /\ result_df' = r.result_df
    /\ csv_data' = r.csv_data
    /\ unmatched_from_csv1' = r.unmatched_from_csv1
    /\ unmatched_from_csv2' = r.unmatched_from_csv2

Init ==
    /\ csv1 = NoFile
    /\ csv2 = NoFile
    /\ sel = Selection(Defaults1(NoFile, NoFile), Defaults2(NoFile, NoFile))
    /\ changed = FALSE
    /\ page = {"info"}
    /\ df1 = NoFrame
    /\ df2 = NoFrame
    /\ brief_link = <<>>
    /\ merged_df = <<>>
    /\ result_df = <<>>
    /\ csv_data = <<>>
    /\ unmatched_from_csv1 = <<>>
    /\ unmatched_from_csv2 = <<>>

\* The user puts a file into the first uploader, which was empty.  The
\* select boxes appear, at their defaults, once both files could be read.
UploadCsv1(f) ==
    /\ ~csv1.up
    /\ csv1' = f
    /\ sel' = Selection(Defaults1(f, csv2), Defaults2(f, csv2))
    /\ Show(Main(f, csv2, sel', FALSE, "none"))
    /\ UNCHANGED <<csv2, changed>>

\* The user puts a file into the second uploader, which was empty.
UploadCsv2(f) ==
    /\ ~csv2.up
    /\ csv2' = f
    /\ sel' = Selection(Defaults1(csv1, f), Defaults2(csv1, f))
    /\ Show(Main(csv1, f, sel', FALSE, "none"))
    /\ UNCHANGED <<csv1, changed>>

\* The options the user picks from in a select box: every column of CSV 1,
\* and of CSV 2 the requirement column, the amount column and one of the
\* columns that hold 'Data' (they are alike).
Options(box, c1, c2) ==
    IF box \in {"brief_req_col", "issued_amount_col"}
    THEN {0, 3, 7} \cap 0..(c2.ncols - 1)
    ELSE 0..(c1.ncols - 1)

\* The user picks another option in one of the select boxes; the model
\* follows sessions with at most one such change.
SelectColumn(box, c) ==
    /\ Rendered(csv1, csv2)
    /\ ~changed
    /\ c \in Options(box, csv1, csv2)
    /\ c # sel[box]
    /\ sel' = [sel EXCEPT ![box] = c]
    /\ changed' = TRUE
    /\ Show(Main(csv1, csv2, sel', FALSE, "none"))
    /\ UNCHANGED <<csv1, csv2>>

\* The user presses "Generate Links & Match Data".
ClickGenerate(fault) ==
    /\ Rendered(csv1, csv2)
    /\ Show(Main(csv1, csv2, sel, TRUE, fault))
    /\ UNCHANGED <<csv1, csv2, sel, changed>>

Next ==
    \/ \E f \in Files1 : UploadCsv1(f)
    \/ \E f \in Files2 : UploadCsv2(f)
    \/ \E box \in DOMAIN sel, c \in 0..(ExpectedCols2 - 1) : SelectColumn(box, c)
    \/ \E fault \in Faults : ClickGenerate(fault)

Spec == Init /\ [][Next]_vars

(* ------------------------------ claims -------------------------------- *)

\* The last run entered the button's block.
Clicked == "mapping" \in page /\ ("error" \in page \/ "results" \in page)

\* The last run got past pd.merge.
Merged == Clicked /\ ~MergeRaises(sel)

\* The last run rendered the result table.
Tabled == "results" \in page

\* The last run reached the end of the button's block.
Completed == "download" \in page

\* The uploaded value of the cell the user mapped, before any cleaning.
Raw1(i, box) == csv1.rows[i][sel[box]]

Raw2(j, box) == csv2.rows[j][sel[box]]

\* Number of rows of merged_df that came from row i of CSV 1.
RowsFrom(i) == Cardinality({k \in 1..Len(merged_df) : merged_df[k].p = i})

\* Rows of CSV 2 whose cleaned requirement equals the cleaned name of row i.
Partners(i) ==
    {j \in 1..Len(df2.rows) : df2.rows[j][sel.brief_req_col] = df1.rows[i][sel.brief_name_col]}

\* C1: for every Primary record, Brief_Link is the base URL followed by the
\* trimmed Brief ID when the Brief ID is present and not blank, and the empty
\* string when the Brief ID is null, empty or whitespace-only.
C1_LinkDerivation ==
    Clicked =>
        \A i \in 1..Len(csv1.rows) :
            LET id == Raw1(i, "brief_id_col")
                text == StrStrip(AsTypeStr(Column(csv1, sel.brief_id_col), i))
            IN  brief_link[i] = IF id.k # "nan" /\ text # <<>> THEN base_url \o text ELSE <<>>

\* C5: after normalising, every Brief Name and every Brief Requirement is
\* its string form without leading and trailing whitespace, and a null value
\* is the empty string.
C5_NormalisedKeys ==
    Clicked =>
        /\ \A i \in 1..Len(csv1.rows) :
              df1.rows[i][sel.brief_name_col] =
                  IF Raw1(i, "brief_name_col").k = "nan" THEN Str(<<>>)
                  ELSE Str(StrStrip(AsTypeStr(Column(csv1, sel.brief_name_col), i)))
        /\ \A j \in 1..Len(csv2.rows) :
              df2.rows[j][sel.brief_req_col] =
                  IF Raw2(j, "brief_req_col").k = "nan" THEN Str(<<>>)
                  ELSE Str(StrStrip(AsTypeStr(Column(csv2, sel.brief_req_col), j)))

C3_UnmatchedComplement ==
    Completed =>
        \A i \in 1..Len(csv1.rows) :
            (\E k \in 1..Len(merged_df) : merged_df[k].p = i /\ merged_df[k].brief_req.k # "nan")
            <=> ~(\E u \in 1..Len(unmatched_from_csv1) : unmatched_from_csv1[u] = i)

C3_Witness ==
    /\ Completed
    /\ Len(unmatched_from_csv1) = 1
    /\ \E k \in 1..Len(merged_df) : merged_df[k].brief_req.k # "nan"

\* C4: a run that shows the error message has produced no result table, no
\* download and no unmatched listing.
C4_AllOrNothing ==
    "error" \in page => page \cap {"results", "download", "unmatched"} = {}

\* C6: a Brief Name and a Brief Requirement that are equal once trimmed are
\* joined, the joined row carries that Secondary record's Issued Amount, and
\* neither record is listed as unmatched.
C6_TrimBeforeCompare ==
    Completed =>
        \A i \in 1..Len(csv1.rows), j \in 1..Len(csv2.rows) :
            (/\ Raw1(i, "brief_name_col").k = "str"
             /\ Raw2(j, "brief_req_col").k = "str"
             /\ StrStrip(Raw1(i, "brief_name_col").s) = StrStrip(Raw2(j, "brief_req_col").s))
            => /\ \E k \in 1..Len(merged_df) :
                    /\ merged_df[k].p = i
                    /\ merged_df[k].q = j
                    /\ merged_df[k].issued_amount = Raw2(j, "issued_amount_col")
               /\ \A u \in 1..Len(unmatched_from_csv1) : unmatched_from_csv1[u] # i
               /\ \A u \in 1..Len(unmatched_from_csv2) : unmatched_from_csv2[u] # j

C6_Witness ==
    /\ Completed
    /\ \E i \in 1..Len(csv1.rows), j \in 1..Len(csv2.rows) :
          /\ Raw1(i, "brief_name_col") = Str(<<" ", "a", " ">>)
          /\ Raw2(j, "brief_req_col") = Str(<<"a">>)
          /\ Raw2(j, "issued_amount_col") = Num(1)

\* C7: the result is exactly the joined records with a non-empty Brief_Link,
\* in the four fields taken from the selected columns; neither the result
\* nor the exported CSV holds an empty Brief_Link.
C7_ResultProjection ==
    /\ Tabled =>
          /\ \A r \in 1..Len(result_df) :
                /\ result_df[r].Brief_Link # <<>>
                /\ result_df[r].Brief_Link = brief_link[result_df[r].p]
                /\ result_df[r].Client_Name = Raw1(result_df[r].p, "client_col")
                /\ result_df[r].Brief_Name = df1.rows[result_df[r].p][sel.brief_name_col]
                /\ result_df[r].Issued_Amount =
                      IF result_df[r].q = 0 THEN NaN
                      ELSE Raw2(result_df[r].q, "issued_amount_col")
          /\ Len(result_df) = Cardinality({k \in 1..Len(merged_df) : merged_df[k].Brief_Link # <<>>})
          /\ \A k \in 1..Len(merged_df) :
                merged_df[k].Brief_Link # <<>> =>
                    \E r \in 1..Len(result_df) :
                        result_df[r].p = merged_df[k].p /\ result_df[r].q = merged_df[k].q
    /\ Completed =>
          /\ Len(csv_data) = Len(result_df)
          /\ \A r \in 1..Len(csv_data) : csv_data[r].Brief_Link = result_df[r].Brief_Link

C7_Witness ==
    /\ Completed
    /\ Len(result_df) > 0
    /\ Len(result_df) < Len(merged_df)

\* C8: the select boxes open on valid positions: Client Name 0, Brief Name 2
\* if CSV 1 has more than 2 columns else 0, Brief ID the last column, Brief
\* Requirement 3 if CSV 2 has more than 3 columns else 0, Issued Amount 7 if
\* it has more than 7 else 0.
C8_DefaultsValid ==
    (Rendered(csv1, csv2) /\ ~changed) =>
        /\ sel.client_col = 0
        /\ sel.brief_name_col = (IF csv1.ncols > 2 THEN 2 ELSE 0)
        /\ sel.brief_id_col = csv1.ncols - 1
        /\ sel.brief_req_col = (IF csv2.ncols > 3 THEN 3 ELSE 0)
        /\ sel.issued_amount_col = (IF csv2.ncols > 7 THEN 7 ELSE 0)
        /\ {sel.client_col, sel.brief_name_col, sel.brief_id_col} \subseteq 0..(csv1.ncols - 1)
        /\ {sel.brief_req_col, sel.issued_amount_col} \subseteq 0..(csv2.ncols - 1)

C8_Witness ==
    /\ Rendered(csv1, csv2)
    /\ ~changed
    /\ csv1.ncols = 2
    /\ csv2.ncols = 7

\* C9: the joined rows and the result rows stand in the order of the Primary
\* records they come from.
C9_PrimaryOrder ==
    /\ Merged =>
          \A k1, k2 \in 1..Len(merged_df) : k1 < k2 => merged_df[k1].p <= merged_df[k2].p
    /\ Tabled =>
          \A r1, r2 \in 1..Len(result_df) : r1 < r2 => result_df[r1].p <= result_df[r2].p

C9_Witness ==
    /\ Tabled
    /\ Len(result_df) = 3
    /\ result_df[1].p # result_df[3].p

\* C10: a result row whose Brief_Name no Secondary record has as its key has
\* no Issued_Amount; any other result row carries the Issued Amount of a
\* Secondary record with that key.
C10_JoinSoundness ==
    Tabled =>
        \A r \in 1..Len(result_df) :
            LET keyed == {j \in 1..Len(df2.rows) : df2.rows[j][sel.brief_req_col] = result_df[r].Brief_Name}
            IN  IF keyed = {}
                THEN result_df[r].q = 0 /\ result_df[r].Issued_Amount = NaN
                ELSE /\ result_df[r].q \in keyed
                     /\ result_df[r].Issued_Amount = df2.rows[result_df[r].q][sel.issued_amount_col]

C10_Witness ==
    /\ Tabled
    /\ \E r1, r2 \in 1..Len(result_df) :
          /\ result_df[r1].Brief_Name # result_df[r2].Brief_Name
          /\ result_df[r1].Issued_Amount = Num(1)
          /\ result_df[r2].Issued_Amount = Num(2)

====
